---------------------------- MODULE Spec2Model ----------------------------
(***************************************************************************)
(* BSF cold-store gas simulator (BSF_GasSim_v52.py): the emission-rate     *)
(* curves, the steady-state mass balance, the fan staging functions and    *)
(* the Streamlit session (autopilot loop, START / STOP / RESET, history    *)
(* series), modelled one script run per action.                            *)
(*                                                                         *)
(* Units.  The source computes in binary floating point; the model         *)
(* computes the same expressions in fixed point over the integers:         *)
(*   day            1/120 day   (mast_day 1.0 = 120, 8.0 = 960; the        *)
(*                               autopilot increment 7/120 day = 7 and the *)
(*                               slider step 0.25 day = 30 are exact)      *)
(*   ppm            0.1 ppm     (calc_ppm returns round(c_ss, 1))          *)
(*   threshold      ppm         (the number_input values are ints)         *)
(*   flow           percent                                                *)
(*   mass           kg                                                     *)
(*   rate           1e-9 g/kg/h                                            *)
(*   curve factor   1e-6                                                   *)
(*   density        g/m3  (= 1e-3 kg/m3)                                   *)
(*   volume         1e-3 m3                                                *)
(*   air flow       1e-3 m3/h                                              *)
(*   hist_t         0.25/60 h   (one tick period)                          *)
(***************************************************************************)
EXTENDS Integers, Sequences, FiniteSets, TLC

\* ------------------------------------------------------------------------
\* Bounds of the model.
\* ------------------------------------------------------------------------

\* Ticks taken since START (sim_step is unbounded in the source).
MaxStep == 250

\* Samples appended since START / RESET while the autopilot is off (every
\* interaction in manual mode appends one; unbounded in the source).
MaxLog == 204

\* Script runs with the autopilot off since START / RESET, in the sessions in
\* which the user moves the sliders.
MaxInput == 2

\* ------------------------------------------------------------------------
\* Fixed-point helpers.
\* ------------------------------------------------------------------------

Max(a, b) == IF a >= b THEN a ELSE b

Min(a, b) == IF a <= b THEN a ELSE b

\* Products of the model's quantities do not fit the 32-bit integers of the
\* checker, so a product is held as five base-100 limbs, most significant
\* first, and divided limb by limb.

\* The limbs of a, 0 <= a < 2^31.
Limbs(a) ==
  << a \div 100000000, (a \div 1000000) % 100, (a \div 10000) % 100,
     (a \div 100) % 100, a % 100 >>

\* The value of five limbs (the limbs need not be below 100).
LimbValue(x) ==
  x[1] * 100000000 + x[2] * 1000000 + x[3] * 10000 + x[4] * 100 + x[5]

\* The limbs of a * m (each limb times m; limbs are not normalised).
LimbScale(x, m) == << x[1] * m, x[2] * m, x[3] * m, x[4] * m, x[5] * m >>

\* Long division of the limbs x by d: << limbs of the quotient, remainder >>
\* (d up to 2 * 10^7, so that a remainder times 100 plus a limb fits).
LimbDiv(x, d) ==
  LET c1 == x[1]
      c2 == (c1 % d) * 100 + x[2]
      c3 == (c2 % d) * 100 + x[3]
      c4 == (c3 % d) * 100 + x[4]
      c5 == (c4 % d) * 100 + x[5]
  IN  << << c1 \div d, c2 \div d, c3 \div d, c4 \div d, c5 \div d >>, c5 % d >>

\* A quotient with remainder qr = << limbs, remainder >> of a division by c,
\* rounded to the nearest integer, an exact half to even.
RoundHalfEven(qr, c) ==
  IF 2 * qr[2] > c \/ (2 * qr[2] = c /\ LimbValue(qr[1]) % 2 = 1)
  THEN LimbValue(qr[1]) + 1
  ELSE LimbValue(qr[1])

\* a * b / c rounded to the nearest integer (0 <= a < 2^31, 0 <= b, 0 < c,
\* b and c up to 10^7).
MulDivRound(a, b, c) == RoundHalfEven(LimbDiv(LimbScale(Limbs(a), b), c), c)

\* A rounding that cuts the second decimal off.
Round1Down(c100, rem) == c100 \div 10

\* round(c, 1) of a non-negative value c given as c100 hundredths plus a
\* remainder (rem > 0: a further fraction of a hundredth): the result in
\* tenths, an exact half rounded to even (Python's round on the exact value).
Round1(c100, rem) ==
  IF c100 % 10 > 5 \/ (c100 % 10 = 5 /\ (rem > 0 \/ (c100 \div 10) % 2 = 1))
  THEN c100 \div 10 + 1
  ELSE c100 \div 10

\* ------------------------------------------------------------------------
\* Room parameters, physical constants, fan design.
\* ------------------------------------------------------------------------

\* Model units per day of mast_day.
DAY == 120

\* Z1_L * Z1_B * Z1_H = 21.359 * 9.750 * 3.800 = 791.35095 m3.
VOL_Z1 == 791351

\* Z2_L * Z2_B * Z2_H = 3.800 * 2.900 * 3.800 = 41.876 m3.
VOL_Z2 == 41876

Z1_LARVEN_MAX == 51858

Z2_LARVEN_MAX == 7560

RHO_CO2 == 1842

RHO_NH3 == 769

\* 420.0 ppm, in 0.01 ppm.
CO2_AMBIENT == 42000

\* The ambient 0.02 ppm that macro_nh3 passes to calc_ppm, in 0.01 ppm.
NH3_AMBIENT == 2

\* 60000.0 m3/h, in 1e-3 m3/h.
FAN_Z1_MAX_M3H == 60000000

FAN_Z2_MAX_M3H == 60000000

CO2_DAYS == 8

\* A missing optional argument (Python's None) is the empty tuple, a given
\* one the 1-tuple of its value.
None == << >>

\* A fan whose floor is put on the percentage, not on the air flow.
fan_m3h_pct_floor(pct, vol, max_q) ==
  LET q == IF max_q = None THEN vol * 6 ELSE max_q[1]
  IN  MulDivRound(q, Max(pct, 1), 100)

\* A fan whose percentage closes the damper instead of opening it.
fan_m3h_reverse(pct, vol, max_q) ==
  LET q == IF max_q = None THEN vol * 6 ELSE max_q[1]
  IN  Max(MulDivRound(q, 100 - pct, 100), 1000)

\* fan_m3h(pct, vol, max_q=None): max(pct / 100.0 * max_q, 1.0).
fan_m3h(pct, vol, max_q) ==
  LET q == IF max_q = None THEN vol * 6 ELSE max_q[1]
  IN  Max(MulDivRound(q, pct, 100), 1000)

fan_m3h_z2(pct) == fan_m3h(pct, VOL_Z2, << FAN_Z2_MAX_M3H >>)

\* ------------------------------------------------------------------------
\* Emission curves.
\* ------------------------------------------------------------------------

\* 0.3 + 2.7 * sin(pi * x) ** 1.8 with x = day / CO2_DAYS, in millionths, tabulated
\* for day = d / 120, d = 120 .. 960 (entry d - 119).
CO2_CURVE ==
  << 779154, 785985, 792849, 799747, 806677, 813640, 820636, 827663, 834722, 841812, 848933, 856084,
     863266, 870479, 877720, 884991, 892292, 899621, 906978, 914363, 921776, 929217, 936685, 944179,
     951700, 959247, 966820, 974419, 982043, 989691, 997364, 1005061, 1012782, 1020527, 1028295, 1036086,
     1043899, 1051735, 1059592, 1067471, 1075371, 1083293, 1091234, 1099197, 1107179, 1115180, 1123201, 1131241,
     1139299, 1147376, 1155471, 1163583, 1171713, 1179860, 1188023, 1196202, 1204398, 1212609, 1220835, 1229077,
     1237333, 1245603, 1253888, 1262186, 1270497, 1278821, 1287158, 1295507, 1303869, 1312242, 1320626, 1329021,
     1337427, 1345843, 1354269, 1362705, 1371150, 1379604, 1388066, 1396537, 1405016, 1413503, 1421997, 1430497,
     1439005, 1447519, 1456038, 1464564, 1473095, 1481630, 1490171, 1498715, 1507264, 1515816, 1524372, 1532930,
     1541491, 1550055, 1558620, 1567188, 1575756, 1584325, 1592896, 1601466, 1610036, 1618607, 1627176, 1635744,
     1644312, 1652877, 1661440, 1670002, 1678560, 1687116, 1695668, 1704217, 1712761, 1721302, 1729838, 1738369,
     1746894, 1755414, 1763928, 1772436, 1780938, 1789432, 1797920, 1806399, 1814871, 1823335, 1831790, 1840237,
     1848674, 1857102, 1865520, 1873928, 1882326, 1890713, 1899089, 1907454, 1915806, 1924147, 1932476, 1940792,
     1949095, 1957385, 1965661, 1973924, 1982172, 1990406, 1998625, 2006829, 2015017, 2023190, 2031347, 2039487,
     2047611, 2055718, 2063807, 2071879, 2079933, 2087969, 2095987, 2103986, 2111966, 2119926, 2127867, 2135788,
     2143688, 2151569, 2159428, 2167266, 2175083, 2182878, 2190651, 2198402, 2206130, 2213835, 2221517, 2229176,
     2236811, 2244422, 2252009, 2259571, 2267108, 2274621, 2282107, 2289569, 2297004, 2304413, 2311795, 2319151,
     2326479, 2333781, 2341054, 2348300, 2355518, 2362707, 2369868, 2376999, 2384102, 2391175, 2398218, 2405231,
     2412214, 2419167, 2426089, 2432979, 2439839, 2446667, 2453463, 2460227, 2466959, 2473659, 2480325, 2486959,
     2493559, 2500126, 2506659, 2513158, 2519623, 2526054, 2532449, 2538810, 2545136, 2551426, 2557681, 2563899,
     2570082, 2576228, 2582338, 2588411, 2594447, 2600446, 2606407, 2612331, 2618217, 2624065, 2629874, 2635645,
     2641377, 2647070, 2652725, 2658339, 2663915, 2669450, 2674945, 2680401, 2685816, 2691190, 2696524, 2701816,
     2707068, 2712278, 2717446, 2722573, 2727658, 2732701, 2737702, 2742660, 2747575, 2752448, 2757277, 2762064,
     2766807, 2771506, 2776162, 2780774, 2785342, 2789866, 2794345, 2798780, 2803170, 2807515, 2811815, 2816070,
     2820280, 2824444, 2828562, 2832635, 2836662, 2840642, 2844577, 2848465, 2852306, 2856101, 2859849, 2863551,
     2867205, 2870812, 2874371, 2877883, 2881348, 2884764, 2888133, 2891454, 2894727, 2897952, 2901128, 2904256,
     2907335, 2910366, 2913348, 2916281, 2919165, 2921999, 2924785, 2927521, 2930208, 2932846, 2935434, 2937972,
     2940460, 2942899, 2945287, 2947626, 2949914, 2952152, 2954340, 2956477, 2958564, 2960601, 2962587, 2964522,
     2966406, 2968240, 2970022, 2971754, 2973435, 2975064, 2976643, 2978170, 2979646, 2981071, 2982444, 2983766,
     2985037, 2986256, 2987423, 2988539, 2989603, 2990616, 2991577, 2992486, 2993343, 2994149, 2994902, 2995604,
     2996254, 2996852, 2997398, 2997893, 2998335, 2998725, 2999063, 2999349, 2999584, 2999766, 2999896, 2999974,
     3000000, 2999974, 2999896, 2999766, 2999584, 2999349, 2999063, 2998725, 2998335, 2997893, 2997398, 2996852,
     2996254, 2995604, 2994902, 2994149, 2993343, 2992486, 2991577, 2990616, 2989603, 2988539, 2987423, 2986256,
     2985037, 2983766, 2982444, 2981071, 2979646, 2978170, 2976643, 2975064, 2973435, 2971754, 2970022, 2968240,
     2966406, 2964522, 2962587, 2960601, 2958564, 2956477, 2954340, 2952152, 2949914, 2947626, 2945287, 2942899,
     2940460, 2937972, 2935434, 2932846, 2930208, 2927521, 2924785, 2921999, 2919165, 2916281, 2913348, 2910366,
     2907335, 2904256, 2901128, 2897952, 2894727, 2891454, 2888133, 2884764, 2881348, 2877883, 2874371, 2870812,
     2867205, 2863551, 2859849, 2856101, 2852306, 2848465, 2844577, 2840642, 2836662, 2832635, 2828562, 2824444,
     2820280, 2816070, 2811815, 2807515, 2803170, 2798780, 2794345, 2789866, 2785342, 2780774, 2776162, 2771506,
     2766807, 2762064, 2757277, 2752448, 2747575, 2742660, 2737702, 2732701, 2727658, 2722573, 2717446, 2712278,
     2707068, 2701816, 2696524, 2691190, 2685816, 2680401, 2674945, 2669450, 2663915, 2658339, 2652725, 2647070,
     2641377, 2635645, 2629874, 2624065, 2618217, 2612331, 2606407, 2600446, 2594447, 2588411, 2582338, 2576228,
     2570082, 2563899, 2557681, 2551426, 2545136, 2538810, 2532449, 2526054, 2519623, 2513158, 2506659, 2500126,
     2493559, 2486959, 2480325, 2473659, 2466959, 2460227, 2453463, 2446667, 2439839, 2432979, 2426089, 2419167,
     2412214, 2405231, 2398218, 2391175, 2384102, 2376999, 2369868, 2362707, 2355518, 2348300, 2341054, 2333781,
     2326479, 2319151, 2311795, 2304413, 2297004, 2289569, 2282107, 2274621, 2267108, 2259571, 2252009, 2244422,
     2236811, 2229176, 2221517, 2213835, 2206130, 2198402, 2190651, 2182878, 2175083, 2167266, 2159428, 2151569,
     2143688, 2135788, 2127867, 2119926, 2111966, 2103986, 2095987, 2087969, 2079933, 2071879, 2063807, 2055718,
     2047611, 2039487, 2031347, 2023190, 2015017, 2006829, 1998625, 1990406, 1982172, 1973924, 1965661, 1957385,
     1949095, 1940792, 1932476, 1924147, 1915806, 1907454, 1899089, 1890713, 1882326, 1873928, 1865520, 1857102,
     1848674, 1840237, 1831790, 1823335, 1814871, 1806399, 1797920, 1789432, 1780938, 1772436, 1763928, 1755414,
     1746894, 1738369, 1729838, 1721302, 1712761, 1704217, 1695668, 1687116, 1678560, 1670002, 1661440, 1652877,
     1644312, 1635744, 1627176, 1618607, 1610036, 1601466, 1592896, 1584325, 1575756, 1567188, 1558620, 1550055,
     1541491, 1532930, 1524372, 1515816, 1507264, 1498715, 1490171, 1481630, 1473095, 1464564, 1456038, 1447519,
     1439005, 1430497, 1421997, 1413503, 1405016, 1396537, 1388066, 1379604, 1371150, 1362705, 1354269, 1345843,
     1337427, 1329021, 1320626, 1312242, 1303869, 1295507, 1287158, 1278821, 1270497, 1262186, 1253888, 1245603,
     1237333, 1229077, 1220835, 1212609, 1204398, 1196202, 1188023, 1179860, 1171713, 1163583, 1155471, 1147376,
     1139299, 1131241, 1123201, 1115180, 1107179, 1099197, 1091234, 1083293, 1075371, 1067471, 1059592, 1051735,
     1043899, 1036086, 1028295, 1020527, 1012782, 1005061, 997364, 989691, 982043, 974419, 966820, 959247,
     951700, 944179, 936685, 929217, 921776, 914363, 906978, 899621, 892292, 884991, 877720, 870479,
     863266, 856084, 848933, 841812, 834722, 827663, 820636, 813640, 806677, 799747, 792849, 785985,
     779154, 772357, 765594, 758866, 752172, 745514, 738890, 732303, 725752, 719237, 712758, 706317,
     699913, 693546, 687218, 680927, 674675, 668462, 662289, 656154, 650060, 644005, 637991, 632018,
     626086, 620195, 614346, 608538, 602773, 597051, 591372, 585735, 580143, 574594, 569089, 563628,
     558213, 552842, 547517, 542238, 537005, 531818, 526677, 521584, 516538, 511539, 506589, 501686,
     496833, 492028, 487272, 482566, 477909, 473303, 468747, 464242, 459789, 455386, 451036, 446737,
     442491, 438298, 434158, 430071, 426039, 422060, 418136, 414266, 410452, 406694, 402991, 399345,
     395755, 392222, 388747, 385330, 381970, 378670, 375428, 372245, 369123, 366060, 363058, 360117,
     357238, 354420, 351665, 348972, 346343, 343778, 341277, 338841, 336470, 334165, 331927, 329755,
     327652, 325616, 323650, 321753, 319927, 318172, 316489, 314878, 313341, 311879, 310493, 309183,
     307952, 306800, 305728, 304739, 303834, 303015, 302284, 301645, 301101, 300656, 300316, 300091,
     300000 >>

\* 1.5 * exp(2.6 * (x - 0.45)) with x = day / CO2_DAYS, in millionths, tabulated
\* for day = d / 120, d = 432 .. 960 (entry d - 431).
NH3_EXP_CURVE ==
  << 1500000, 1504068, 1508147, 1512237, 1516338, 1520451, 1524574, 1528709, 1532855, 1537012, 1541180, 1545360,
     1549551, 1553753, 1557967, 1562192, 1566429, 1570677, 1574937, 1579208, 1583491, 1587785, 1592091, 1596409,
     1600739, 1605080, 1609433, 1613798, 1618174, 1622563, 1626963, 1631375, 1635800, 1640236, 1644684, 1649145,
     1653617, 1658102, 1662599, 1667108, 1671629, 1676162, 1680708, 1685266, 1689836, 1694419, 1699015, 1703622,
     1708243, 1712875, 1717521, 1722179, 1726849, 1731532, 1736228, 1740937, 1745658, 1750393, 1755140, 1759900,
     1764672, 1769458, 1774257, 1779069, 1783894, 1788732, 1793583, 1798447, 1803324, 1808215, 1813119, 1818036,
     1822966, 1827910, 1832868, 1837838, 1842823, 1847820, 1852832, 1857857, 1862895, 1867947, 1873013, 1878093,
     1883186, 1888293, 1893414, 1898549, 1903698, 1908861, 1914038, 1919229, 1924434, 1929653, 1934886, 1940133,
     1945395, 1950671, 1955961, 1961266, 1966585, 1971918, 1977266, 1982628, 1988005, 1993397, 1998803, 2004224,
     2009659, 2015109, 2020574, 2026054, 2031549, 2037058, 2042583, 2048122, 2053677, 2059246, 2064831, 2070431,
     2076046, 2081676, 2087322, 2092983, 2098659, 2104350, 2110057, 2115780, 2121518, 2127271, 2133041, 2138825,
     2144626, 2150442, 2156274, 2162122, 2167986, 2173865, 2179761, 2185672, 2191600, 2197543, 2203503, 2209479,
     2215471, 2221480, 2227504, 2233545, 2239603, 2245676, 2251767, 2257874, 2263997, 2270137, 2276293, 2282467,
     2288657, 2294864, 2301087, 2307328, 2313585, 2319860, 2326151, 2332460, 2338785, 2345128, 2351488, 2357866,
     2364260, 2370672, 2377101, 2383548, 2390012, 2396494, 2402993, 2409510, 2416045, 2422597, 2429167, 2435755,
     2442361, 2448984, 2455626, 2462286, 2468964, 2475659, 2482373, 2489106, 2495856, 2502625, 2509412, 2516217,
     2523041, 2529884, 2536745, 2543625, 2550523, 2557440, 2564376, 2571330, 2578304, 2585296, 2592308, 2599338,
     2606387, 2613456, 2620544, 2627651, 2634777, 2641922, 2649087, 2656271, 2663475, 2670699, 2677942, 2685204,
     2692486, 2699789, 2707110, 2714452, 2721814, 2729195, 2736597, 2744018, 2751460, 2758922, 2766404, 2773907,
     2781430, 2788973, 2796537, 2804121, 2811726, 2819351, 2826997, 2834664, 2842352, 2850060, 2857790, 2865540,
     2873311, 2881104, 2888917, 2896752, 2904608, 2912485, 2920384, 2928304, 2936246, 2944209, 2952193, 2960200,
     2968228, 2976278, 2984349, 2992443, 3000559, 3008696, 3016856, 3025037, 3033241, 3041467, 3049716, 3057987,
     3066280, 3074596, 3082934, 3091295, 3099679, 3108085, 3116514, 3124966, 3133441, 3141939, 3150460, 3159004,
     3167571, 3176162, 3184775, 3193413, 3202073, 3210757, 3219465, 3228196, 3236951, 3245729, 3254532, 3263358,
     3272208, 3281083, 3289981, 3298903, 3307850, 3316821, 3325816, 3334836, 3343880, 3352949, 3362042, 3371160,
     3380302, 3389470, 3398662, 3407879, 3417121, 3426388, 3435681, 3444998, 3454341, 3463709, 3473103, 3482522,
     3491967, 3501437, 3510933, 3520455, 3530002, 3539575, 3549175, 3558800, 3568452, 3578129, 3587833, 3597563,
     3607320, 3617103, 3626913, 3636749, 3646612, 3656501, 3666418, 3676361, 3686331, 3696329, 3706353, 3716405,
     3726484, 3736590, 3746724, 3756885, 3767074, 3777290, 3787534, 3797806, 3808105, 3818433, 3828789, 3839172,
     3849584, 3860024, 3870493, 3880989, 3891515, 3902068, 3912651, 3923262, 3933902, 3944571, 3955268, 3965995,
     3976751, 3987536, 3998350, 4009194, 4020066, 4030969, 4041901, 4052863, 4063854, 4074875, 4085926, 4097007,
     4108118, 4119260, 4130431, 4141633, 4152865, 4164128, 4175421, 4186744, 4198099, 4209484, 4220900, 4232347,
     4243826, 4255335, 4266875, 4278447, 4290050, 4301685, 4313351, 4325049, 4336778, 4348540, 4360333, 4372158,
     4384016, 4395905, 4407827, 4419781, 4431767, 4443786, 4455838, 4467922, 4480039, 4492189, 4504372, 4516588,
     4528837, 4541119, 4553434, 4565783, 4578166, 4590582, 4603031, 4615515, 4628032, 4640583, 4653169, 4665788,
     4678442, 4691130, 4703852, 4716609, 4729400, 4742227, 4755088, 4767983, 4780914, 4793880, 4806881, 4819917,
     4832989, 4846096, 4859239, 4872417, 4885631, 4898881, 4912167, 4925488, 4938846, 4952241, 4965671, 4979138,
     4992641, 5006181, 5019758, 5033372, 5047022, 5060710, 5074435, 5088196, 5101996, 5115832, 5129706, 5143618,
     5157568, 5171555, 5185580, 5199644, 5213745, 5227885, 5242063, 5256279, 5270534, 5284828, 5299161, 5313532,
     5327942, 5342392, 5356880, 5371408, 5385975, 5400582, 5415229, 5429915, 5444641, 5459407, 5474213, 5489059,
     5503945, 5518872, 5533839, 5548847, 5563895, 5578985, 5594115, 5609286, 5624498, 5639752, 5655047, 5670384,
     5685762, 5701182, 5716643, 5732147, 5747692, 5763280, 5778910, 5794583, 5810298, 5826055, 5841855, 5857698,
     5873585, 5889514, 5905486, 5921502, 5937561, 5953664, 5969810, 5986000, 6002234, 6018512, 6034835, 6051201,
     6067612, 6084067, 6100567, 6117112, 6133702, 6150336, 6167016, 6183741, 6200511, 6217327, 6234189, 6251096,
     6268049 >>


\* A curve that lacks its offset 0.3.
co2_rate_no_offset(day, rate_avg) ==
  MulDivRound(rate_avg, CO2_CURVE[day - (DAY - 1)] - 300000, 1000000)

\* r * (0.3 + 2.7 * sin(pi * x) ** 1.8), x = day / CO2_DAYS.
co2_rate_g_kg_h(day, rate_avg) ==
  MulDivRound(rate_avg, CO2_CURVE[day - (DAY - 1)], 1000000)

\* The branch x < 0.45: b * (1.0 + 0.5 * x / 0.45), which is
\* b * (864 + d) / 864 for x = d / 960.
nh3_linear(day, b) == MulDivRound(b, 864 + day, 864)

\* An exponential branch that lacks the factor 1.5.
nh3_exp_from_base(day, b) == MulDivRound(b, NH3_EXP_CURVE[day - 431], 1500000)

\* The other branch: b * 1.5 * exp(2.6 * (x - 0.45)).
nh3_exp(day, b) == MulDivRound(b, NH3_EXP_CURVE[day - 431], 1000000)

nh3_rate_g_kg_h(day, rate_base) ==
  IF 100 * day < 45 * (DAY * CO2_DAYS)
  THEN nh3_linear(day, rate_base)
  ELSE nh3_exp(day, rate_base)

\* ------------------------------------------------------------------------
\* Steady-state mass balance.
\* ------------------------------------------------------------------------

\* round(ambient + quotient, 1) for a quotient with remainder
\* qr = << limbs, remainder >> in hundredths of a ppm; rem > 0 when an
\* earlier division left a remainder.
RoundSum(ambient, qr, rem) == Round1(ambient + LimbValue(qr[1]), rem + qr[2])

\* A balance that takes the emission off the ambient value.
c_ss_minus(ambient, E_m3_h, Q_m3_h) ==
  Round1(ambient - LimbValue(LimbDiv(E_m3_h[1], Q_m3_h)[1]), 0)

\* c_ss = ambient + (E_m3_h / Q_m3_h) * 1e6; return round(c_ss, 1), for
\* E_m3_h = << limbs, remainder >> in 1e-8 m3/h and Q_m3_h in 1e-3 m3/h,
\* whose quotient is hundredths of a ppm.
c_ss(ambient, E_m3_h, Q_m3_h) ==
  RoundSum(ambient, LimbDiv(E_m3_h[1], Q_m3_h), E_m3_h[2])

\* E_kg_h = mass_kg * rate / 1000, E_m3_h = E_kg_h / rho_gas,
\* Q_m3_h = fan_m3h(flow_pct, vol), c_ss = ambient + (E_m3_h / Q_m3_h) * 1e6,
\* return round(c_ss, 1).  In the model's units E_m3_h is
\* 100 * mass_kg * rate / rho_gas; the two quotients are taken exactly (the
\* floor of a floor is the floor of the whole quotient) and the sum is
\* rounded once.
calc_ppm(mass_kg, rate_g_kg_h, rho_gas, flow_pct, vol, ambient) ==
  c_ss(ambient,
       LimbDiv(LimbScale(Limbs(rate_g_kg_h), 100 * mass_kg), rho_gas),
       fan_m3h(flow_pct, vol, None))

macro_co2(mass_kg, flow_pct, vol, day, co2_r) ==
  calc_ppm(mass_kg, co2_rate_g_kg_h(day, co2_r), RHO_CO2, flow_pct, vol, CO2_AMBIENT)

macro_nh3(mass_kg, flow_pct, vol, day, nh3_r) ==
  calc_ppm(mass_kg, nh3_rate_g_kg_h(day, nh3_r), RHO_NH3, flow_pct, vol, NH3_AMBIENT)

\* ------------------------------------------------------------------------
\* State.
\* ------------------------------------------------------------------------

VARIABLES
  \* st.session_state (_def)
  sim_active, sim_step, mast_day, flow_z1, flow_z2,
  hist_t, hist_co2_z1, hist_nh3_z1, hist_co2_z2, hist_nh3_z2, hist_flow_z1,
  \* sidebar widgets: the values they return in the next script run
  mast_day_slider, mass_z1, mass_z2, stufen_co2, stufen_nh3, stufen_pct,
  flow_z1_manual, flow_z2_manual, CO2_RATE_AVG, NH3_RATE_BASE,
  \* TRUE while a script run requested by the script itself (st.rerun) is due
  rerun,
  \* every sample appended since the session began or START / RESET last
  \* replaced the series, the replacing sample first
  appended,
  \* inputs and results of the staging functions, of calc_ppm or of a rate
  \* function applied on their own
  probe,
  \* the buttons whose handlers ran last, << the one before, the last >>, each
  \* "none", "start", "stop" or "reset"
  last_cmd

session == << sim_active, sim_step, mast_day, flow_z1, flow_z2 >>

history ==
  << hist_t, hist_co2_z1, hist_nh3_z1, hist_co2_z2, hist_nh3_z2, hist_flow_z1 >>

widgets ==
  << mast_day_slider, mass_z1, mass_z2, stufen_co2, stufen_nh3, stufen_pct,
     flow_z1_manual, flow_z2_manual, CO2_RATE_AVG, NH3_RATE_BASE >>

vars == << session, history, widgets, rerun, appended, probe, last_cmd >>

\* ------------------------------------------------------------------------
\* Fan staging.
\* ------------------------------------------------------------------------

\* CO2_S1, CO2_S2, CO2_S3 = stufen_co2[1], stufen_co2[2], stufen_co2[3]
\* (Python indices), in ppm; gas values are in 0.1 ppm.
CO2_S1 == 10 * stufen_co2[2]

CO2_S2 == 10 * stufen_co2[3]

CO2_S3 == 10 * stufen_co2[4]

NH3_S1 == 10 * stufen_nh3[2]

NH3_S2 == 10 * stufen_nh3[3]

NH3_S3 == 10 * stufen_nh3[4]

\* An autopilot that takes its percentages from the editable stage table.
autopilot_flow_table(co2, nh3, day, base_pct) ==
  IF co2 > CO2_S3 \/ nh3 > NH3_S3 THEN stufen_pct[4]
  ELSE IF co2 > CO2_S2 \/ nh3 > NH3_S2 THEN stufen_pct[3]
  ELSE IF co2 > CO2_S1 \/ nh3 > NH3_S1 THEN stufen_pct[2]
  ELSE stufen_pct[1]

\* An autopilot with a latch: once at 100 %, it stays there until both gases
\* are back under their stage-2 thresholds.
autopilot_flow_latched(co2, nh3, day, base_pct) ==
  IF co2 > CO2_S3 \/ nh3 > NH3_S3 THEN 100
  ELSE IF co2 > CO2_S2 \/ nh3 > NH3_S2
       THEN (IF probe.flow = 100 THEN 100 ELSE 70)
  ELSE IF co2 > CO2_S1 \/ nh3 > NH3_S1 THEN 40
  ELSE base_pct

autopilot_flow(co2, nh3, day, base_pct) ==
  IF co2 > CO2_S3 \/ nh3 > NH3_S3 THEN 100
  ELSE IF co2 > CO2_S2 \/ nh3 > NH3_S2 THEN 70
  ELSE IF co2 > CO2_S1 \/ nh3 > NH3_S1 THEN 40
  ELSE base_pct

\* A classifier that asks for both gases to be over a threshold.
fan_stage_both(co2, nh3) ==
  IF co2 > CO2_S3 /\ nh3 > NH3_S3 THEN << 3, "ALARM - 100%", "RED", 100 >>
  ELSE IF co2 > CO2_S2 /\ nh3 > NH3_S2 THEN << 2, "STUFE 2 - 70%", "ORANGE", 70 >>
  ELSE IF co2 > CO2_S1 /\ nh3 > NH3_S1 THEN << 1, "STUFE 1 - 40%", "GREEN", 40 >>
  ELSE << 0, "ECO - 20%", "MUTED", 20 >>

fan_stage(co2, nh3) ==
  IF co2 > CO2_S3 \/ nh3 > NH3_S3 THEN << 3, "ALARM - 100%", "RED", 100 >>
  ELSE IF co2 > CO2_S2 \/ nh3 > NH3_S2 THEN << 2, "STUFE 2 - 70%", "ORANGE", 70 >>
  ELSE IF co2 > CO2_S1 \/ nh3 > NH3_S1 THEN << 1, "STUFE 1 - 40%", "GREEN", 40 >>
  ELSE << 0, "ECO - 20%", "MUTED", 20 >>

\* A classifier that takes a value at a threshold for the higher stage.
get_stufe_inclusive(co2, nh3) ==
  IF co2 >= CO2_S3 \/ nh3 >= NH3_S3 THEN << 3, "ALARM - EVAKUIERUNG", "RED", "red" >>
  ELSE IF co2 >= CO2_S2 \/ nh3 >= NH3_S2 THEN << 2, "WARNUNG opt/akust", "ORANGE", "ora" >>
  ELSE IF co2 >= CO2_S1 \/ nh3 >= NH3_S1 THEN << 1, "BETRIEB STUFE 1", "GREEN", "grn" >>
  ELSE << 0, "STANDBY / ECO", "MUTED", "" >>

get_stufe(co2, nh3) ==
  IF co2 > CO2_S3 \/ nh3 > NH3_S3 THEN << 3, "ALARM - EVAKUIERUNG", "RED", "red" >>
  ELSE IF co2 > CO2_S2 \/ nh3 > NH3_S2 THEN << 2, "WARNUNG opt/akust", "ORANGE", "ora" >>
  ELSE IF co2 > CO2_S1 \/ nh3 > NH3_S1 THEN << 1, "BETRIEB STUFE 1", "GREEN", "grn" >>
  ELSE << 0, "STANDBY / ECO", "MUTED", "" >>

\* The staircase of the Zone 01 CO2 chart: the fan percent drawn for a CO2
\* value.
fan_step_arr(co2_val) ==
  IF co2_val >= 10 * stufen_co2[4] THEN stufen_pct[4]
  ELSE IF co2_val >= 10 * stufen_co2[3] THEN stufen_pct[3]
  ELSE IF co2_val >= 10 * stufen_co2[2] THEN stufen_pct[2]
  ELSE stufen_pct[1]

\* ------------------------------------------------------------------------
\* The session: one script run per action.
\* ------------------------------------------------------------------------

\* The series keep their last 200 entries.
HIST_MAX == 200

\* A history that is never cut.
Last200Unbounded(lst) == lst

\* A history that keeps its oldest 200 entries instead of its newest.
Last200Oldest(lst) ==
  IF Len(lst) > HIST_MAX THEN SubSeq(lst, 1, HIST_MAX) ELSE lst

\* lst[-200:] when len(lst) > 200, lst otherwise.
Last200(lst) ==
  IF Len(lst) > HIST_MAX THEN SubSeq(lst, Len(lst) - HIST_MAX + 1, Len(lst)) ELSE lst

\* lst.append(val); if len(lst) > 200: lst = lst[-200:]
HistAppend(lst, val) == Last200(Append(lst, val))

\* An appending loop whose list lacks ("hist_flow_z1", flow_z1).
AppendAllButFlow(h, s) ==
  [i \in 1 .. 6 |-> IF i = 6 THEN h[i] ELSE Last200(Append(h[i], s[i]))]

\* for lst, val in [("hist_t", t_val), ..., ("hist_flow_z1", flow_z1)]: the
\* six series h with the sample s appended, each cut to its last 200.
AppendAll(h, s) == [i \in 1 .. 6 |-> HistAppend(h[i], s[i])]

\* _def: the session defaults, which START writes as well (hist_t = [0.0],
\* hist_co2_z1 = [420.0], hist_nh3_z1 = [0.2], hist_co2_z2 = [420.0],
\* hist_nh3_z2 = [0.2], hist_flow_z1 = [30.0]).
DefSample == << 0, 4200, 2, 4200, 2, 30 >>

DefFlowZ1 == 30

DefFlowZ2 == 25

\* The slider "Masttag (1-8)" is created with the session's mast_day as its
\* default; a run that changes the session's mast_day makes the next run
\* create it anew, at that default.
SliderAfter(day) == IF day # mast_day THEN day ELSE mast_day_slider

\* The autopilot's mast_day advance per tick, 7.0 / 120.0 day.
MastStep == 7

\* Fan percent of stage 0 that the tick passes for zone 1 and zone 2.
BasePctZ1 == 28

BasePctZ2 == 22

\* The tick's readings and the sample it appends, for its sim_step, mast_day
\* and the two fan percents it selected: co2_z1, nh3_z1, co2_z2, nh3_z2 are
\* computed with the selected percents, t_val = (step * 0.25) / 60.0.
TickSample(step, day, fz1, fz2) ==
  [ sim_step |-> step, mast_day |-> day, flow_z1 |-> fz1, flow_z2 |-> fz2,
    sample   |-> << step,
                    macro_co2(mass_z1, fz1, VOL_Z1, day, CO2_RATE_AVG),
                    macro_nh3(mass_z1, fz1, VOL_Z1, day, NH3_RATE_BASE),
                    macro_co2(mass_z2, fz2, VOL_Z2, day, CO2_RATE_AVG),
                    macro_nh3(mass_z2, fz2, VOL_Z2, day, NH3_RATE_BASE),
                    fz1 >> ]

\* The tick's fan selection at mast_day = day: autopilot_flow on the zone's
\* gas values computed with flow_pct = 0.
TickFlow(step, day) ==
  TickSample(step, day,
    autopilot_flow(macro_co2(mass_z1, 0, VOL_Z1, day, CO2_RATE_AVG),
                   macro_nh3(mass_z1, 0, VOL_Z1, day, NH3_RATE_BASE),
                   day, BasePctZ1),
    autopilot_flow(macro_co2(mass_z2, 0, VOL_Z2, day, CO2_RATE_AVG),
                   macro_nh3(mass_z2, 0, VOL_Z2, day, NH3_RATE_BASE),
                   day, BasePctZ2))

\* A ramp computed from the tick counter before it is counted up.
MastDayBehind(step) == Min(8 * DAY, 1 * DAY + (step - 1) * MastStep)

\* A ramp whose increment 7/120 is an integer division.
MastDayIntDiv(step) == Min(8 * DAY, 1 * DAY + step * (7 \div 120) * DAY)

\* A ramp that begins the next cycle at day 1 once day 8 has been reached.
MastDayCycle(step) == 1 * DAY + ((step * MastStep) % (7 * DAY + MastStep))

\* mast_day = min(8.0, 1.0 + step * (7.0 / 120.0))
MastDay(step) == Min(8 * DAY, 1 * DAY + step * MastStep)

\* The SIMULATION section with the autopilot on, entered with sim_step =
\* step0: sim_step += 1, the mast_day advance, the fan selection, the
\* readings and the sample.
AutopilotTick(step0) == TickFlow(step0 + 1, MastDay(step0 + 1))

\* The SIMULATION section with the autopilot off: the sample appended from
\* the slider's mast_day and the manual fan settings; t_val is
\* len(hist_t) * 0.25 / 60.0.
ManualSampleAt(day, fz1, fz2) ==
  << Len(hist_t),
     macro_co2(mass_z1, fz1, VOL_Z1, day, CO2_RATE_AVG),
     macro_nh3(mass_z1, fz1, VOL_Z1, day, NH3_RATE_BASE),
     macro_co2(mass_z2, fz2, VOL_Z2, day, CO2_RATE_AVG),
     macro_nh3(mass_z2, fz2, VOL_Z2, day, NH3_RATE_BASE),
     fz1 >>

\* The sample of a run in which no slider was moved.
ManualSample == ManualSampleAt(mast_day_slider, flow_z1_manual, flow_z2_manual)

\* The six series become h.
SetHistory(h) ==
  /\ hist_t' = h[1]
  /\ hist_co2_z1' = h[2]
  /\ hist_nh3_z1' = h[3]
  /\ hist_co2_z2' = h[4]
  /\ hist_nh3_z2' = h[5]
  /\ hist_flow_z1' = h[6]

\* The series as _def and START set them: one sample each.
DefHistory == [i \in 1 .. 6 |-> << DefSample[i] >>]

settings ==
  << mass_z1, mass_z2, stufen_co2, stufen_nh3, stufen_pct,
     flow_z1_manual, flow_z2_manual, CO2_RATE_AVG, NH3_RATE_BASE >>

\* No evaluation of the staging functions on their own has been made.
NoProbe ==
  [ evals |-> 0, co2 |-> 0, nh3 |-> 0, base_pct |-> 0, flow |-> 0,
    stage |-> << >>, stufe |-> << >>, step |-> 0,
    stage_co2 |-> << >>, stage_nh3 |-> << >>,
    prev_co2 |-> 0, prev_nh3 |-> 0, prev_base_pct |-> 0, prev_flow |-> 0 ]

Init ==
  /\ sim_active = FALSE
  /\ sim_step = 0
  /\ mast_day = 1 * DAY
  /\ flow_z1 = DefFlowZ1
  /\ flow_z2 = DefFlowZ2
  /\ hist_t = DefHistory[1]
  /\ hist_co2_z1 = DefHistory[2]
  /\ hist_nh3_z1 = DefHistory[3]
  /\ hist_co2_z2 = DefHistory[4]
  /\ hist_nh3_z2 = DefHistory[5]
  /\ hist_flow_z1 = DefHistory[6]
  /\ mast_day_slider = 1 * DAY
  /\ mass_z1 = Z1_LARVEN_MAX
  /\ mass_z2 = Z2_LARVEN_MAX
  /\ stufen_co2 = << 420, 3000, 5000, 10000 >>
  /\ stufen_nh3 = << 0, 12, 25, 50 >>
  /\ stufen_pct = << 20, 40, 70, 100 >>
  /\ flow_z1_manual = 20
  /\ flow_z2_manual = 20
  /\ CO2_RATE_AVG = 125000000
  /\ NH3_RATE_BASE = 1000000
  /\ rerun = TRUE
  /\ appended = << DefSample >>
  /\ probe = NoProbe
  /\ last_cmd = << "none", "none" >>

\* The handler of button cmd has run.
Pressed(cmd) == last_cmd' = << last_cmd[2], cmd >>

\* The end of a script run: "if sim_active: time.sleep(0.25); st.rerun()".
AutopilotLoop == rerun' = sim_active'

\* The page is rendered and takes a click: the autopilot is sleeping between
\* two ticks, or the last run ended without requesting another.
Interactive == sim_active \/ ~rerun

\* A tick cut short after the counter and the day are written: flows and
\* series are still those of the tick before.
TickCutShort ==
  /\ sim_active
  /\ rerun
  /\ sim_step < MaxStep
  /\ sim_step' = sim_step + 1
  /\ mast_day' = MastDay(sim_step + 1)
  /\ mast_day_slider' = SliderAfter(MastDay(sim_step + 1))
  /\ sim_active' = sim_active
  /\ AutopilotLoop
  /\ UNCHANGED << flow_z1, flow_z2, history, appended, settings, probe, last_cmd >>

\* A tick that switches the autopilot off once the cycle has reached day 8.
TickAutoStop ==
  /\ sim_active
  /\ rerun
  /\ sim_step < MaxStep
  /\ \E t \in { AutopilotTick(sim_step) } :
         /\ sim_step' = t.sim_step
         /\ mast_day' = t.mast_day
         /\ mast_day_slider' = SliderAfter(t.mast_day)
         /\ flow_z1' = t.flow_z1
         /\ flow_z2' = t.flow_z2
         /\ SetHistory(AppendAll(history, t.sample))
         /\ appended' = Append(appended, t.sample)
         /\ sim_active' = (t.mast_day < 8 * DAY)
  /\ AutopilotLoop
  /\ UNCHANGED << settings, probe, last_cmd >>

\* A script run with the autopilot on and no button pressed: the tick, then
\* the request for the next run.
Tick ==
  /\ sim_active
  /\ rerun
  /\ sim_step < MaxStep
  /\ \E t \in { AutopilotTick(sim_step) } :
         /\ sim_step' = t.sim_step
         /\ mast_day' = t.mast_day
         /\ mast_day_slider' = SliderAfter(t.mast_day)
         /\ flow_z1' = t.flow_z1
         /\ flow_z2' = t.flow_z2
         /\ SetHistory(AppendAll(history, t.sample))
         /\ appended' = Append(appended, t.sample)
  /\ sim_active' = sim_active
  /\ AutopilotLoop
  /\ UNCHANGED << settings, probe, last_cmd >>

\* A START that is ignored while the autopilot is on: the run takes the next
\* tick of the cycle under way.
StartIgnoredWhileRunning ==
  /\ Interactive
  /\ sim_active' = TRUE
  /\ \E t \in { AutopilotTick(IF sim_active THEN sim_step ELSE 0) } :
         /\ sim_step' = t.sim_step
         /\ mast_day' = t.mast_day
         /\ mast_day_slider' = SliderAfter(t.mast_day)
         /\ flow_z1' = t.flow_z1
         /\ flow_z2' = t.flow_z2
         /\ SetHistory(AppendAll(IF sim_active THEN history ELSE DefHistory, t.sample))
         /\ appended' = (IF sim_active THEN Append(appended, t.sample)
                         ELSE << DefSample, t.sample >>)
  /\ AutopilotLoop
  /\ Pressed("start")
  /\ UNCHANGED << settings, probe >>

\* The run in which START is pressed: the handler writes the session, the
\* SIMULATION section then finds sim_active set and takes the first tick.
Start ==
  /\ Interactive
  /\ sim_active' = TRUE
  /\ \E t \in { AutopilotTick(0) } :
         /\ sim_step' = t.sim_step
         /\ mast_day' = t.mast_day
         /\ mast_day_slider' = SliderAfter(t.mast_day)
         /\ flow_z1' = t.flow_z1
         /\ flow_z2' = t.flow_z2
         /\ SetHistory(AppendAll(DefHistory, t.sample))
         /\ appended' = << DefSample, t.sample >>
  /\ AutopilotLoop
  /\ Pressed("start")
  /\ UNCHANGED << settings, probe >>

\* A STOP whose handler runs after the SIMULATION section: the run still takes
\* a tick before the autopilot is off.
StopAfterTick ==
  /\ Interactive
  /\ sim_active
  /\ sim_step < MaxStep
  /\ sim_active' = FALSE
  /\ \E t \in { AutopilotTick(sim_step) } :
         /\ sim_step' = t.sim_step
         /\ mast_day' = t.mast_day
         /\ mast_day_slider' = SliderAfter(t.mast_day)
         /\ flow_z1' = t.flow_z1
         /\ flow_z2' = t.flow_z2
         /\ SetHistory(AppendAll(history, t.sample))
         /\ appended' = Append(appended, t.sample)
  /\ AutopilotLoop
  /\ Pressed("stop")
  /\ UNCHANGED << settings, probe >>

\* The run in which STOP is pressed: sim_active = False, then the manual
\* branch of the SIMULATION section; no rerun is requested.
Stop ==
  /\ Interactive
  /\ sim_active \/ Len(appended) < MaxLog
  /\ sim_active' = FALSE
  /\ \E s \in { ManualSample } :
         /\ SetHistory(AppendAll(history, s))
         /\ appended' = Append(appended, s)
  /\ AutopilotLoop
  /\ Pressed("stop")
  /\ UNCHANGED << sim_step, mast_day, flow_z1, flow_z2, mast_day_slider, settings, probe >>

\* A RESET that sets the scalar keys only and leaves the series alone.
ResetScalarsOnly ==
  /\ Interactive
  /\ sim_active' = FALSE
  /\ sim_step' = 0
  /\ mast_day' = 1 * DAY
  /\ mast_day_slider' = SliderAfter(1 * DAY)
  /\ flow_z1' = DefFlowZ1
  /\ flow_z2' = DefFlowZ2
  /\ UNCHANGED << history, appended >>
  /\ rerun' = TRUE
  /\ Pressed("reset")
  /\ UNCHANGED << settings, probe >>

\* A RESET that hands the session the list objects of the RESET before it,
\* which the manual runs in between have appended to.
ResetAliased ==
  /\ Interactive
  /\ sim_active' = FALSE
  /\ sim_step' = 0
  /\ mast_day' = 1 * DAY
  /\ mast_day_slider' = SliderAfter(1 * DAY)
  /\ flow_z1' = DefFlowZ1
  /\ flow_z2' = DefFlowZ2
  /\ IF last_cmd[2] = "reset"
     THEN UNCHANGED << history, appended >>
     ELSE SetHistory(DefHistory) /\ appended' = << DefSample >>
  /\ rerun' = TRUE
  /\ Pressed("reset")
  /\ UNCHANGED << settings, probe >>

\* The run in which RESET is pressed: the session is set to _def and
\* st.rerun() ends the run before the SIMULATION section.
Reset ==
  /\ Interactive
  /\ sim_active' = FALSE
  /\ sim_step' = 0
  /\ mast_day' = 1 * DAY
  /\ mast_day_slider' = SliderAfter(1 * DAY)
  /\ flow_z1' = DefFlowZ1
  /\ flow_z2' = DefFlowZ2
  /\ SetHistory(DefHistory)
  /\ appended' = << DefSample >>
  /\ rerun' = TRUE
  /\ Pressed("reset")
  /\ UNCHANGED << settings, probe >>

\* A script run with the autopilot off and no button pressed (the first run
\* of the session, the run RESET requests, any other interaction): the
\* manual branch of the SIMULATION section; no rerun is requested.
ManualRerun ==
  /\ ~sim_active
  /\ Len(appended) < MaxLog
  /\ \E s \in { ManualSample } :
         /\ SetHistory(AppendAll(history, s))
         /\ appended' = Append(appended, s)
  /\ sim_active' = sim_active
  /\ AutopilotLoop
  /\ UNCHANGED << sim_step, mast_day, flow_z1, flow_z2, mast_day_slider, settings, probe, last_cmd >>

Next == Tick \/ Start \/ Stop \/ Reset \/ ManualRerun

Spec == Init /\ [][Next]_vars

\* ------------------------------------------------------------------------
\* The autopilot left to itself: once started, no button is pressed, and the
\* rerun the loop requests is always taken.
\* ------------------------------------------------------------------------

StartFromIdle == ~sim_active /\ Start

NextLive == Tick \/ StartFromIdle \/ ManualRerun

\* The step a tick takes, told by the tick counter: it is enabled exactly when
\* Tick is, and a step of NextLive that counts sim_step up is a Tick.
TickStep ==
  /\ sim_active
  /\ rerun
  /\ sim_step < MaxStep
  /\ sim_step' = sim_step + 1

\* "time.sleep(0.25); st.rerun()" ends every run of a running autopilot, so a
\* tick that stays due is taken.
SpecLive == Init /\ [][NextLive]_vars /\ WF_sim_step(TickStep)

\* ------------------------------------------------------------------------
\* The session with the user at the sliders: moving a slider makes the script
\* run with the slider's new value.
\* ------------------------------------------------------------------------

\* A percent without its lower clamp: 0 m3/h gives 0 %.
flow_manual_unclamped(q, max_q) == (q * 100) \div (max_q \div 1000)

\* flow_z1_manual = max(1, int(q1_manual / FAN_Z1_MAX_M3H * 100)), and the
\* same for zone 2, for the slider's q in m3/h.
flow_manual(q, max_q) == Max(1, (q * 100) \div (max_q \div 1000))

\* Positions of "Masttag (1-8)" (1.0 to 8.0 in steps of 0.25): both ends.
InputDay == { 1 * DAY, 8 * DAY }

\* Positions of "Z1 [m3/h]" and "Z2 [m3/h]" (0 to 60000 in steps of 100):
\* both ends.
InputQ == { 0, 60000 }

\* Script runs with the autopilot off since START / RESET last replaced the
\* series.
ManualRuns == Len(appended) - 1 - sim_step

\* A slider is moved while the autopilot is on: the run takes the tick, which
\* reads neither the day slider nor the manual fan settings.
InputTick(d, q1, q2) ==
  /\ sim_active
  /\ sim_step < MaxStep
  /\ \E t \in { AutopilotTick(sim_step) } :
         /\ sim_step' = t.sim_step
         /\ mast_day' = t.mast_day
         /\ mast_day_slider' = (IF t.mast_day # mast_day THEN t.mast_day ELSE d)
         /\ flow_z1' = t.flow_z1
         /\ flow_z2' = t.flow_z2
         /\ SetHistory(AppendAll(history, t.sample))
         /\ appended' = Append(appended, t.sample)
  /\ flow_z1_manual' = flow_manual(q1, FAN_Z1_MAX_M3H)
  /\ flow_z2_manual' = flow_manual(q2, FAN_Z2_MAX_M3H)
  /\ sim_active' = sim_active
  /\ AutopilotLoop
  /\ UNCHANGED << mass_z1, mass_z2, stufen_co2, stufen_nh3, stufen_pct,
                  CO2_RATE_AVG, NH3_RATE_BASE, probe, last_cmd >>

\* A slider is moved while the autopilot is off: the run appends the sample of
\* the sliders' new values.
InputManual(d, q1, q2) ==
  /\ ~sim_active
  /\ ~rerun
  /\ ManualRuns < MaxInput
  /\ Len(appended) < MaxLog
  /\ \E s \in { ManualSampleAt(d, flow_manual(q1, FAN_Z1_MAX_M3H),
                                 flow_manual(q2, FAN_Z2_MAX_M3H)) } :
         /\ SetHistory(AppendAll(history, s))
         /\ appended' = Append(appended, s)
  /\ mast_day_slider' = d
  /\ flow_z1_manual' = flow_manual(q1, FAN_Z1_MAX_M3H)
  /\ flow_z2_manual' = flow_manual(q2, FAN_Z2_MAX_M3H)
  /\ sim_active' = sim_active
  /\ AutopilotLoop
  /\ UNCHANGED << sim_step, mast_day, flow_z1, flow_z2,
                  mass_z1, mass_z2, stufen_co2, stufen_nh3, stufen_pct,
                  CO2_RATE_AVG, NH3_RATE_BASE, probe, last_cmd >>

StopSoon == ManualRuns < MaxInput /\ Stop

ManualSoon == ManualRuns < MaxInput /\ ManualRerun

NextInput ==
  \/ Tick
  \/ Start
  \/ StopSoon
  \/ Reset
  \/ ManualSoon
  \/ \E d \in InputDay, q1 \in InputQ, q2 \in InputQ : InputTick(d, q1, q2)
  \/ \E d \in InputDay, q1 \in InputQ, q2 \in InputQ : InputManual(d, q1, q2)

SpecInput == Init /\ [][NextInput]_vars

\* ------------------------------------------------------------------------
\* The staging functions on their own: a threshold table as the user may
\* have edited it, and gas values around its thresholds.
\* ------------------------------------------------------------------------

\* << stufen_co2, stufen_nh3 >>: the default table, a table with equal
\* neighbouring thresholds, a table that is not non-decreasing.
StageTables ==
  { << << 420, 3000, 5000, 10000 >>, << 0, 12, 25, 50 >> >>,
    << << 420, 3000, 3000, 10000 >>, << 0, 12, 50, 50 >> >>,
    << << 420, 5000, 3000, 10000 >>, << 0, 25, 12, 50 >> >> }

\* Gas values in 0.1 ppm: at, above and away from the thresholds.
ProbeCO2 == { 1000, 30000, 40000, 50000, 100000, 100001 }

ProbeNH3 == { 50, 120, 250, 500, 501, 600 }

ProbeBase == { BasePctZ1, BasePctZ2 }

InitStage ==
  /\ sim_active = FALSE
  /\ sim_step = 0
  /\ mast_day = 1 * DAY
  /\ flow_z1 = DefFlowZ1
  /\ flow_z2 = DefFlowZ2
  /\ hist_t = DefHistory[1]
  /\ hist_co2_z1 = DefHistory[2]
  /\ hist_nh3_z1 = DefHistory[3]
  /\ hist_co2_z2 = DefHistory[4]
  /\ hist_nh3_z2 = DefHistory[5]
  /\ hist_flow_z1 = DefHistory[6]
  /\ mast_day_slider = 1 * DAY
  /\ mass_z1 = Z1_LARVEN_MAX
  /\ mass_z2 = Z2_LARVEN_MAX
  /\ \E tab \in StageTables : stufen_co2 = tab[1] /\ stufen_nh3 = tab[2]
  /\ stufen_pct = << 20, 40, 70, 100 >>
  /\ flow_z1_manual = 20
  /\ flow_z2_manual = 20
  /\ CO2_RATE_AVG = 125000000
  /\ NH3_RATE_BASE = 1000000
  /\ rerun = TRUE
  /\ appended = << DefSample >>
  /\ probe = NoProbe
  /\ last_cmd = << "none", "none" >>

\* One evaluation, as a tick and the readings make it, of autopilot_flow,
\* fan_stage, get_stufe and the chart's staircase on the gas values co2, nh3
\* (and of fan_stage on each gas with the other absent); the evaluation
\* before it is kept for comparison.
Evaluate(co2, nh3, base_pct) ==
  /\ probe' =
       [ evals |-> Min(probe.evals + 1, 2),
         co2 |-> co2, nh3 |-> nh3, base_pct |-> base_pct,
         flow  |-> autopilot_flow(co2, nh3, mast_day, base_pct),
         stage |-> fan_stage(co2, nh3),
         stufe |-> get_stufe(co2, nh3),
         step  |-> fan_step_arr(co2),
         stage_co2 |-> fan_stage(co2, 0),
         stage_nh3 |-> fan_stage(0, nh3),
         prev_co2 |-> probe.co2, prev_nh3 |-> probe.nh3,
         prev_base_pct |-> probe.base_pct, prev_flow |-> probe.flow ]
  /\ UNCHANGED << session, history, widgets, rerun, appended, last_cmd >>

NextStage ==
  \E co2 \in ProbeCO2, nh3 \in ProbeNH3, base_pct \in ProbeBase :
    Evaluate(co2, nh3, base_pct)

SpecStage == InitStage /\ [][NextStage]_vars

\* ------------------------------------------------------------------------
\* The mass balance and the NH3 rate on their own: inputs from small sets,
\* changed one at a time.
\* ------------------------------------------------------------------------

\* kg: none, a few boxes, zone 2, zone 1.
PpmMass == { 0, 10, Z2_LARVEN_MAX, Z1_LARVEN_MAX }

\* 1e-9 g/kg/h: none, the NH3 default, a little more, the CO2 default.
PpmRate == { 0, 1000000, 1250000, 125000000 }

PpmRho == { RHO_CO2, RHO_NH3 }

PpmPct == { 0, 1, 2, 20, 50, 99, 100 }

\* 1e-3 m3: 5 m3, 50 m3, zone 2, the 790.7 m3 of the plan, zone 1.
PpmVol == { 5000, 50000, VOL_Z2, 790700, VOL_Z1 }

PpmAmbient == { NH3_AMBIENT, CO2_AMBIENT }

\* 1/120 day: day 1, around the breakpoint of the NH3 rate (day 3.6), day 8.
RateDay == { 120, 431, 432, 433, 960 }

RateBase == { 100000, 1000000, 1000001, 10000000 }

\* calc_ppm applied to the inputs in, the evaluation before it kept.
PpmProbe(in, before) ==
  [ kind |-> "ppm",
    mass |-> in[1], rate |-> in[2], rho |-> in[3],
    pct |-> in[4], vol |-> in[5], ambient |-> in[6],
    Q |-> fan_m3h(in[4], in[5], None),
    ppm |-> calc_ppm(in[1], in[2], in[3], in[4], in[5], in[6]),
    prev |-> before ]

PpmInputs ==
  << probe.mass, probe.rate, probe.rho, probe.pct, probe.vol, probe.ambient >>

PpmBefore == << PpmInputs, probe.ppm, probe.Q >>

\* A first evaluation of calc_ppm.
CalcPpm(mass, rate, rho, pct, vol, ambient) ==
  /\ probe = NoProbe
  /\ probe' = PpmProbe(<< mass, rate, rho, pct, vol, ambient >>, << >>)
  /\ UNCHANGED << session, history, widgets, rerun, appended, last_cmd >>

\* calc_ppm once more, argument i of the last evaluation changed to val.
CalcAgain(i, val) ==
  /\ probe # NoProbe
  /\ probe.kind = "ppm"
  /\ PpmInputs[i] # val
  /\ probe' = PpmProbe([PpmInputs EXCEPT ![i] = val], PpmBefore)
  /\ UNCHANGED << session, history, widgets, rerun, appended, last_cmd >>

\* nh3_rate_g_kg_h and the formulas of its two branches at one day; the
\* exponential one is tabulated from the breakpoint on.
RateNh3(day, b) ==
  /\ probe = NoProbe
  /\ probe' =
       [ kind |-> "nh3_rate", day |-> day, base |-> b,
         rate |-> nh3_rate_g_kg_h(day, b),
         linear |-> nh3_linear(day, b),
         exp |-> IF day >= 432 THEN nh3_exp(day, b) ELSE 0 ]
  /\ UNCHANGED << session, history, widgets, rerun, appended, last_cmd >>

\* 1/120 day: day 1, day 4, day 8.
Co2Day == { 120, 480, 960 }

\* 1e-9 g/kg/h: the least rate of the input, the default, four times it.
Co2Base == { 10000000, 125000000, 500000000 }

\* co2_rate_g_kg_h at one day.
RateCo2(day, r) ==
  /\ probe = NoProbe
  /\ probe' =
       [ kind |-> "co2_rate", day |-> day, base |-> r,
         rate |-> co2_rate_g_kg_h(day, r) ]
  /\ UNCHANGED << session, history, widgets, rerun, appended, last_cmd >>

NextPpm ==
  \/ \E mass \in PpmMass, rate \in PpmRate, rho \in PpmRho, pct \in PpmPct,
        vol \in PpmVol, ambient \in PpmAmbient :
       CalcPpm(mass, rate, rho, pct, vol, ambient)
  \/ \E mass \in PpmMass : CalcAgain(1, mass)
  \/ \E rate \in PpmRate : CalcAgain(2, rate)
  \/ \E pct \in PpmPct : CalcAgain(4, pct)
  \/ \E day \in RateDay, b \in RateBase : RateNh3(day, b)
  \/ \E day \in Co2Day, r \in Co2Base : RateCo2(day, r)

SpecPpm == Init /\ [][NextPpm]_vars

\* ------------------------------------------------------------------------
\* Properties
\* ------------------------------------------------------------------------

\* C1: in every reachable state each of the six history series (hist_t,
\* hist_co2_z1, hist_nh3_z1, hist_co2_z2, hist_nh3_z2, hist_flow_z1) holds at
\* most 200 entries.
C1_HistoryBounded == \A i \in 1 .. 6 : Len(history[i]) <= 200

\* A series is full and more than 200 samples have been appended to it.
C1_Witness == Len(hist_co2_z1) = 200 /\ Len(appended) > 200

\* C2: the history is first-in-first-out: after N samples have been appended
\* since the last Start or Reset, each series holds exactly the last
\* min(N, 200) of them in the order of their appending; after 250 samples it
\* holds 200, the oldest 50 being gone.
C2_HistoryFIFO ==
  LET N == Len(appended)
      L == IF N <= 200 THEN N ELSE 200
  IN  /\ \A i \in 1 .. 6 :
           /\ Len(history[i]) = L
           /\ \A j \in 1 .. L : history[i][j] = appended[N - L + j][i]
      /\ N = 250 =>
           \A i \in 1 .. 6 :
             Len(history[i]) = 200 /\ history[i][1] = appended[51][i]

\* 250 samples have been appended, 249 of them by ticks of one run.
C2_Witness == Len(appended) = 250 /\ sim_step = 249 /\ Len(hist_t) = 200

\* C3: with non-decreasing thresholds per gas, the stage of a pair of gas
\* values is the greater of the stage the CO2 value gives alone and the stage
\* the NH3 value gives alone; with CO2 thresholds 3000/5000/10000 and NH3
\* thresholds 12/25/50, (4000 ppm, 5 ppm) is stage 1 and (100 ppm, 60 ppm) is
\* stage 3.
C3_WorstOfBothGases ==
  ( /\ probe.evals > 0
    /\ stufen_co2[2] <= stufen_co2[3] /\ stufen_co2[3] <= stufen_co2[4]
    /\ stufen_nh3[2] <= stufen_nh3[3] /\ stufen_nh3[3] <= stufen_nh3[4] ) =>
    /\ probe.stage[1] = Max(probe.stage_co2[1], probe.stage_nh3[1])
    /\ (stufen_co2 = << 420, 3000, 5000, 10000 >> /\ stufen_nh3 = << 0, 12, 25, 50 >>) =>
         /\ (probe.co2 = 40000 /\ probe.nh3 = 50) => probe.stage[1] = 1
         /\ (probe.co2 = 1000 /\ probe.nh3 = 600) => probe.stage[1] = 3

\* CO2 far under its first threshold, NH3 over its third: stage 3.
C3_Witness ==
  /\ probe.evals > 0
  /\ stufen_co2 = << 420, 3000, 5000, 10000 >>
  /\ stufen_nh3 = << 0, 12, 25, 50 >>
  /\ probe.co2 = 1000
  /\ probe.nh3 = 600
  /\ probe.stage_co2[1] = 0
  /\ probe.stage_nh3[1] = 3
  /\ probe.stage[1] = 3

\* C4: a gas value exactly equal to a threshold selects the higher stage:
\* whenever the CO2 or the NH3 value equals the threshold of stage k, the
\* classifiers give at least stage k and the autopilot at least the
\* percentage of stage k.
C4_EqualitySelectsHigherStage ==
  probe.evals > 0 =>
    \A k \in 1 .. 3 :
      (probe.co2 = 10 * stufen_co2[k + 1] \/ probe.nh3 = 10 * stufen_nh3[k + 1]) =>
        /\ probe.stage[1] >= k
        /\ probe.stufe[1] >= k
        /\ probe.flow >= << 40, 70, 100 >>[k]

\* C5: autopilot_flow returns 100 in stage 3, 70 in stage 2, 40 in stage 1
\* and the caller's baseline (28 for zone 1, 22 for zone 2) in stage 0, the
\* stage being the one fan_stage gives the same gas values; it returns
\* nothing else.
C5_FlowOfStage ==
  probe.evals > 0 =>
    /\ probe.stage[1] = 3 => probe.flow = 100
    /\ probe.stage[1] = 2 => probe.flow = 70
    /\ probe.stage[1] = 1 => probe.flow = 40
    /\ probe.stage[1] = 0 => probe.flow = probe.base_pct
    /\ probe.flow \in { 100, 70, 40, 28, 22 }

\* Both gases under their first thresholds: the baseline of zone 2.
C5_Witness ==
  /\ probe.evals > 0
  /\ probe.stage[1] = 0
  /\ probe.base_pct = 22
  /\ probe.flow = 22

\* C6: the gas values a tick hands to the staging decision are computed with
\* the airflow the previous tick stored in flow_z1 / flow_z2, so that airflow
\* and concentration form a closed loop.
C6_StagingUsesStoredFlow ==
  [][ (sim_active /\ sim_step' = sim_step + 1) =>
        /\ flow_z1' =
             autopilot_flow(
               macro_co2(mass_z1, flow_z1, VOL_Z1, mast_day', CO2_RATE_AVG),
               macro_nh3(mass_z1, flow_z1, VOL_Z1, mast_day', NH3_RATE_BASE),
               mast_day', 28)
        /\ flow_z2' =
             autopilot_flow(
               macro_co2(mass_z2, flow_z2, VOL_Z2, mast_day', CO2_RATE_AVG),
               macro_nh3(mass_z2, flow_z2, VOL_Z2, mast_day', NH3_RATE_BASE),
               mast_day', 22) ]_vars

C8_MastDayRamp ==
  sim_active =>
    /\ sim_step < 120 => mast_day = 120 + 7 * sim_step
    /\ sim_step >= 120 => mast_day = 960
    /\ mast_day <= 960
    /\ mast_day = 960 <=> sim_step >= 120

\* One tick after the day has reached 8.
C8_Witness == sim_active /\ sim_step = 121 /\ mast_day = 960

\* C9: the simulation does not stop by itself: a tick leaves the autopilot
\* on and asks for the next tick, also when the day has reached 8; a step
\* that switches the autopilot off is a Stop or a Reset.
C9_NeverStopsByItself ==
  [][ /\ (sim_active /\ sim_step' = sim_step + 1) => (sim_active' /\ rerun')
      /\ (sim_active /\ ~sim_active') =>
           (sim_step' = sim_step \/ (sim_step' = 0 /\ Len(appended') = 1)) ]_vars

\* Still running, the next tick due, ten ticks after the day has reached 8.
C9_Witness == sim_active /\ rerun /\ sim_step = 130 /\ mast_day = 960

\* C10: when every due tick is eventually taken and no button is pressed
\* after Start, the simulated day eventually is 8 and stays 8.
C10_EventuallyDay8 == sim_active ~> [](mast_day = 960)

\* The tick at which the day first is 8.
C10_Witness == sim_active /\ sim_step = 120 /\ mast_day = 960 /\ rerun

\* C11: the session starts Idle, and after RESET, pressed in whatever state,
\* the session is Idle with sim_step = 0 and mast_day = 1.0; when the handler
\* of RESET has run, the six series hold their one initial sample and nothing
\* has been appended to them: no tick was taken.
C11_ResetToInitial ==
  /\ last_cmd[2] = "none" => (~sim_active /\ sim_step = 0 /\ mast_day = 120)
  /\ last_cmd[2] = "reset" => (~sim_active /\ sim_step = 0 /\ mast_day = 120)
  /\ (last_cmd[2] = "reset" /\ rerun) =>
       /\ history = << << 0 >>, << 4200 >>, << 2 >>, << 4200 >>, << 2 >>, << 30 >> >>
       /\ Len(appended) = 1

\* RESET has been handled in a run of the autopilot.
C11_Witness ==
  /\ last_cmd = << "start", "reset" >>
  /\ rerun
  /\ ~sim_active
  /\ Len(hist_t) = 1

\* C12: RESET is idempotent: a RESET that follows a RESET leaves mode,
\* sim_step, mast_day, flow_z1 and flow_z2 as the first left them and the
\* series at the single sample the first left.
C12_ResetIdempotent ==
  [][ (last_cmd[2] = "reset" /\ last_cmd' = << "reset", "reset" >> /\ rerun' /\ ~rerun) =>
        /\ session' = session
        /\ \A i \in 1 .. 6 : history[i]' = << appended[1][i] >> ]_vars

\* A second RESET in a row has been handled.
C12_Witness ==
  /\ last_cmd = << "reset", "reset" >>
  /\ rerun
  /\ Len(hist_co2_z2) = 1
  /\ flow_z2 = 25

\* C13: the run that handles STOP takes no tick and asks for no further run,
\* and from then on until START or RESET the autopilot is off and sim_step,
\* mast_day, flow_z1 and flow_z2 are those of the moment STOP was pressed.
C13_StopFreezes ==
  [][ last_cmd[2]' = "stop" =>
        /\ ~sim_active'
        /\ ~rerun'
        /\ sim_step' = sim_step
        /\ mast_day' = mast_day
        /\ flow_z1' = flow_z1
        /\ flow_z2' = flow_z2 ]_vars

\* Stopped after 50 ticks, and three manual runs later still at tick 50.
C13_Witness ==
  /\ last_cmd = << "start", "stop" >>
  /\ ~sim_active
  /\ sim_step = 50
  /\ mast_day = 120 + 7 * 50
  /\ Len(appended) = 55

\* C14: a tick is atomic: whenever the autopilot is on, sim_step, mast_day,
\* the stored flows and the newest entry of each of the six series are those
\* of one and the same tick; no state shows the counter of one tick with the
\* flows or the samples of another.
C14_TickAtomic ==
  sim_active =>
    /\ \A i \in 1 .. 6 : Len(history[i]) = Len(hist_t)
    /\ hist_t[Len(hist_t)] = sim_step
    /\ hist_flow_z1[Len(hist_t)] = flow_z1
    /\ hist_co2_z1[Len(hist_t)]
         = macro_co2(mass_z1, flow_z1, VOL_Z1, mast_day, CO2_RATE_AVG)
    /\ hist_nh3_z1[Len(hist_t)]
         = macro_nh3(mass_z1, flow_z1, VOL_Z1, mast_day, NH3_RATE_BASE)
    /\ hist_co2_z2[Len(hist_t)]
         = macro_co2(mass_z2, flow_z2, VOL_Z2, mast_day, CO2_RATE_AVG)
    /\ hist_nh3_z2[Len(hist_t)]
         = macro_nh3(mass_z2, flow_z2, VOL_Z2, mast_day, NH3_RATE_BASE)

\* After tick 77: counter, day and newest samples are those of tick 77.
C14_Witness ==
  /\ sim_active
  /\ sim_step = 77
  /\ mast_day = 120 + 7 * 77
  /\ hist_t[Len(hist_t)] = 77
  /\ Len(hist_nh3_z2) = 78

\* C15: calc_ppm is the steady-state mass balance
\* ambient + ((mass * rate / 1000) / density) / airflow * 1e6 rounded to one
\* decimal, with airflow = max(flow_pct / 100 * vol * 6, 1.0). Where the
\* products fit, the result is within half a tenth of the exact quotient (in
\* hundredths of a ppm: ambient + 100 * mass * rate / (rho * Q)); and for
\* mass 51858, rate 0.125, density 1.842, 20 %, 790.7 m3 and ambient 420 it
\* is 4129 ppm +- 1.
C15_MassBalance ==
  (probe # NoProbe /\ probe.kind = "ppm") =>
    /\ ( /\ probe.mass <= 10 /\ probe.rate <= 1250000 /\ probe.vol <= 50000
        /\ (6 * probe.vol * probe.pct) % 100 = 0 ) =>
         /\ probe.Q = (IF 6 * probe.vol * probe.pct >= 100000
                       THEN (6 * probe.vol * probe.pct) \div 100 ELSE 1000)
         /\ 10 * probe.ppm - probe.ambient
              - (100 * probe.mass * probe.rate) \div (probe.rho * probe.Q) <= 5
         /\ 10 * probe.ppm - probe.ambient
              - (100 * probe.mass * probe.rate) \div (probe.rho * probe.Q)
              >= (IF (100 * probe.mass * probe.rate) % (probe.rho * probe.Q) = 0
                  THEN -5 ELSE -4)
    /\ (/\ probe.mass = 51858 /\ probe.rate = 125000000 /\ probe.rho = 1842
        /\ probe.pct = 20 /\ probe.vol = 790700 /\ probe.ambient = 42000) =>
         (probe.ppm >= 41280 /\ probe.ppm <= 41300)

\* The example of the mass balance has been computed: 4128.9 ppm.
C15_Witness ==
  /\ probe # NoProbe /\ probe.kind = "ppm"
  /\ probe.mass = 51858 /\ probe.rate = 125000000 /\ probe.rho = 1842
  /\ probe.pct = 20 /\ probe.vol = 790700 /\ probe.ambient = 42000
  /\ probe.Q = 948840
  /\ probe.ppm = 41289

C17_Monotone ==
  (probe # NoProbe /\ probe.kind = "ppm" /\ probe.prev # << >>) =>
    /\ probe.mass > probe.prev[1][1] => probe.ppm >= probe.prev[2]
    /\ probe.rate > probe.prev[1][2] => probe.ppm >= probe.prev[2]
    /\ probe.pct < probe.prev[1][4] => probe.ppm >= probe.prev[2]

\* The mass of zone 1 after the mass of zone 2: a greater value.
C17_Witness ==
  /\ probe # NoProbe /\ probe.kind = "ppm" /\ probe.prev # << >>
  /\ probe.prev[1][1] = 7560 /\ probe.mass = 51858
  /\ probe.rate = 125000000
  /\ probe.ppm > probe.prev[2]

\* C18: the mass balance never divides by zero: the air flow is at least
\* 1.0 m3/h, and for 0 % and every percent whose scaled air flow is under
\* 1.0 m3/h it is exactly 1.0 m3/h and the result is the finite value the
\* balance gives for 1.0 m3/h.
C18_FloorNoDivisionByZero ==
  (probe # NoProbe /\ probe.kind = "ppm") =>
    /\ probe.Q >= 1000
    /\ 6 * probe.vol * probe.pct < 100000 =>
         /\ probe.Q = 1000
         /\ probe.ppm =
              c_ss(probe.ambient,
                   LimbDiv(LimbScale(Limbs(probe.rate), 100 * probe.mass), probe.rho),
                   1000)
         /\ 10 * probe.ppm + 5 >= probe.ambient

\* 0 % for the load of zone 1: 1.0 m3/h and millions of ppm.
C18_Witness ==
  /\ probe # NoProbe /\ probe.kind = "ppm"
  /\ probe.pct = 0
  /\ probe.mass = 51858 /\ probe.rate = 125000000
  /\ probe.Q = 1000
  /\ probe.ppm > 10000000

\* C19: the air flow that enters a zone's ppm reading is the air flow
\* reported for the zone, the percentage of the zone's capacity of
\* 60000 m3/h (FAN_Z1_MAX_M3H, FAN_Z2_MAX_M3H) floored at 1.0 m3/h: the
\* readings of a manual run are those the balance gives for the m3/h set on
\* the sliders of the two zones.
C19_ReadingUsesReportedAirflow ==
  (~sim_active /\ ~rerun) =>
    /\ hist_co2_z1[Len(hist_co2_z1)] =
         c_ss(CO2_AMBIENT,
              LimbDiv(LimbScale(Limbs(co2_rate_g_kg_h(mast_day_slider, CO2_RATE_AVG)),
                                100 * mass_z1), RHO_CO2),
              fan_m3h(flow_z1_manual, VOL_Z1, << FAN_Z1_MAX_M3H >>))
    /\ hist_co2_z2[Len(hist_co2_z2)] =
         c_ss(CO2_AMBIENT,
              LimbDiv(LimbScale(Limbs(co2_rate_g_kg_h(mast_day_slider, CO2_RATE_AVG)),
                                100 * mass_z2), RHO_CO2),
              fan_m3h_z2(flow_z2_manual))

\* C20: the NH3 rate is continuous at its breakpoint: at day 3.6 (x = 0.45)
\* the formula of the linear branch and the formula of the exponential
\* branch give the same rate, 1.5 times the base (to the unit of the rate,
\* 1e-9 g/kg/h), and nh3_rate_g_kg_h returns it.
C20_Nh3ContinuousAtBreakpoint ==
  (probe # NoProbe /\ probe.kind = "nh3_rate" /\ probe.day = 432) =>
    /\ probe.linear = probe.exp
    /\ probe.rate = probe.exp
    /\ 2 * probe.rate - 3 * probe.base <= 1
    /\ 2 * probe.rate - 3 * probe.base >= -1

\* Day 3.6 with the default base 0.001 g/kg/h: 0.0015 g/kg/h.
C20_Witness ==
  /\ probe # NoProbe /\ probe.kind = "nh3_rate"
  /\ probe.day = 432
  /\ probe.base = 1000000
  /\ probe.linear = 1500000
  /\ probe.exp = 1500000
  /\ probe.rate = 1500000

\* C21 as stated: the CO2 rate at day 4 is 3 times the base rate (0.375 g/kg/h
\* for the base 0.125) and the CO2 rate at day 1 is 0.3 times the base rate
\* (0.0375 g/kg/h for the base 0.125).
C21_Co2BoundaryValuesAsStated ==
  (probe # NoProbe /\ probe.kind = "co2_rate") =>
    /\ probe.day = 480 => probe.rate = 3 * probe.base
    /\ probe.day = 120 => probe.rate = 3 * (probe.base \div 10)
    /\ (probe.day = 480 /\ probe.base = 125000000) => probe.rate = 375000000
    /\ (probe.day = 120 /\ probe.base = 125000000) => probe.rate = 37500000

\* C21 amended: the CO2 rate at day 4 (x = 0.5) is 3 times the base rate,
\* 0.375 g/kg/h for the base 0.125; at day 1 (x = 0.125) it is between 0.779
\* and 0.780 times the base rate, 0.0974 g/kg/h for the base 0.125; the value
\* 0.3 times the base rate is the one of day 8 (x = 1).
C21_Co2BoundaryValues ==
  (probe # NoProbe /\ probe.kind = "co2_rate") =>
    /\ probe.day = 480 => probe.rate = 3 * probe.base
    /\ probe.day = 120 =>
         /\ probe.rate >= 779 * (probe.base \div 1000)
         /\ probe.rate <= 780 * (probe.base \div 1000)
    /\ probe.day = 960 => probe.rate = 3 * (probe.base \div 10)
    /\ (probe.day = 480 /\ probe.base = 125000000) => probe.rate = 375000000
    /\ (probe.day = 120 /\ probe.base = 125000000) =>
         (probe.rate >= 97350000 /\ probe.rate <= 97450000)

\* Day 1 with the default base 0.125 g/kg/h: 0.0974 g/kg/h.
C21_Witness ==
  /\ probe # NoProbe /\ probe.kind = "co2_rate"
  /\ probe.day = 120
  /\ probe.base = 125000000
  /\ probe.rate = 97394250

\* C22: a stage table that is not non-decreasing in the stage index (in its
\* CO2 thresholds, its NH3 thresholds or its fan percents) is rejected when it
\* is loaded: no stage classification and no autopilot decision is ever made
\* with such a table.
C22_InvalidTableNeverUsed ==
  probe.evals > 0 =>
    \A k \in 1 .. 3 :
      /\ stufen_co2[k] <= stufen_co2[k + 1]
      /\ stufen_nh3[k] <= stufen_nh3[k + 1]
      /\ stufen_pct[k] <= stufen_pct[k + 1]

\* C23: the sliders clamp: in every state, whatever was pressed or moved, the
\* day of the session and the day of the slider lie in [1, 8], the stored fan
\* percents, the manual fan percents and every fan percent recorded in the
\* history lie in [0, 100], and the slider at 0 m3/h gives 1 %.
C23_InputsClamped ==
  /\ mast_day >= 120 /\ mast_day <= 960
  /\ mast_day_slider >= 120 /\ mast_day_slider <= 960
  /\ flow_z1 >= 0 /\ flow_z1 <= 100
  /\ flow_z2 >= 0 /\ flow_z2 <= 100
  /\ flow_z1_manual >= 1 /\ flow_z1_manual <= 100
  /\ flow_z2_manual >= 1 /\ flow_z2_manual <= 100
  /\ \A j \in 1 .. Len(hist_flow_z1) :
       hist_flow_z1[j] >= 0 /\ hist_flow_z1[j] <= 100
  /\ \A j \in 1 .. Len(appended) :
       appended[j][6] >= 0 /\ appended[j][6] <= 100

\* Stopped at day 8 with zone 1 at 0 m3/h and zone 2 at 60000 m3/h: the
\* manual sample records 1 %.
C23_Witness ==
  /\ ~sim_active
  /\ last_cmd[2] = "stop"
  /\ mast_day = 960
  /\ mast_day_slider = 960
  /\ flow_z1_manual = 1
  /\ flow_z2_manual = 100
  /\ hist_flow_z1[Len(hist_flow_z1)] = 1

\* C24: the ALARM stage is latched: when the evaluation before classified to
\* stage 3, the next evaluation is stage 3 again, at 100 %, unless both its
\* CO2 value and its NH3 value are under their stage-2 thresholds.
C24_AlarmLatched ==
  ( /\ probe.evals = 2
    /\ fan_stage(probe.prev_co2, probe.prev_nh3)[1] = 3
    /\ ~(probe.co2 < CO2_S2 /\ probe.nh3 < NH3_S2) ) =>
    /\ probe.stage[1] = 3
    /\ probe.stufe[1] = 3
    /\ probe.flow = 100

\* C25: START, pressed while Idle or while Running, restarts the cycle: the
\* run that handles it leaves the autopilot on with the next run requested,
\* the six series at their initial single sample (0, 420.0, 0.2, 420.0, 0.2,
\* 30.0) followed by the sample of the first tick, sim_step = 1 and
\* mast_day = 1 + 7/120, whatever the counter, the day and the series were
\* before.
C25_StartRestarts ==
  [][ (last_cmd[2]' = "start" /\ (last_cmd' # last_cmd \/ sim_step' # sim_step + 1)) =>
        /\ sim_active'
        /\ rerun'
        /\ sim_step' = 1
        /\ mast_day' = 127
        /\ \A i \in 1 .. 6 :
             /\ Len(history[i]') = 2
             /\ history[i][1]' = << 0, 4200, 2, 4200, 2, 30 >>[i]
        /\ hist_t[2]' = 1
        /\ hist_flow_z1[2]' = flow_z1'
        /\ Len(appended') = 2 ]_vars

\* START has been pressed in a run of the autopilot that START had begun.
C25_Witness ==
  /\ last_cmd = << "start", "start" >>
  /\ sim_active
  /\ sim_step = 1
  /\ mast_day = 127
  /\ hist_t = << 0, 1 >>

\* C26: with the settings unchanged, a tick taken when the day is 8 already
\* leaves the day at 8 and the autopilot on, selects the fan percents of the
\* tick before, and appends the CO2, NH3 and fan values the tick before
\* appended; the sample's time is one tick period later.
C26_SteadyStateAtDay8 ==
  [][ (sim_active /\ mast_day = 960 /\ sim_step' = sim_step + 1) =>
        /\ sim_active'
        /\ mast_day' = 960
        /\ flow_z1' = flow_z1
        /\ flow_z2' = flow_z2
        /\ \A i \in 2 .. 6 :
             history'[i][Len(history'[i])] = history[i][Len(history[i])]
        /\ hist_t'[Len(hist_t')] = hist_t[Len(hist_t)] + 1 ]_vars

\* Five ticks after the day has reached 8: the readings of the tick before.
C26_Witness ==
  /\ sim_active
  /\ sim_step = 125
  /\ mast_day = 960
  /\ hist_t[Len(hist_t)] = 125
  /\ hist_co2_z1[Len(hist_co2_z1)] = 6423
  /\ hist_co2_z1[Len(hist_co2_z1) - 1] = 6423
  /\ hist_nh3_z2[Len(hist_nh3_z2)] = 2453
  /\ hist_nh3_z2[Len(hist_nh3_z2) - 1] = 2453

\* C27: while the autopilot runs, the fan percent stored for a zone is the one
\* autopilot_flow gives for the CO2 and NH3 readings the tick reported for
\* the zone, so the stage of the readings is the stage of the fan: 100 % in
\* stage 3, 70 % in stage 2, 40 % in stage 1, the baseline in stage 0.
C27_FlowMatchesReadings ==
  sim_active =>
    /\ flow_z1 = autopilot_flow(hist_co2_z1[Len(hist_co2_z1)],
                                hist_nh3_z1[Len(hist_nh3_z1)], mast_day, 28)
    /\ flow_z2 = autopilot_flow(hist_co2_z2[Len(hist_co2_z2)],
                                hist_nh3_z2[Len(hist_nh3_z2)], mast_day, 22)
    /\ get_stufe(hist_co2_z1[Len(hist_co2_z1)], hist_nh3_z1[Len(hist_nh3_z1)])[1] = 3
         <=> flow_z1 = 100

\* C28: the elapsed times of the history are in order: in every reachable
\* state no entry of hist_t is smaller than the entry before it, samples
\* appended by manual runs after a STOP and by runs on a full buffer
\* included.
C28_TimeNonDecreasing ==
  \A j \in 1 .. Len(hist_t) - 1 : hist_t[j] <= hist_t[j + 1]

\* C29: the six series always have the same length, which is at least 1, and
\* the entries at one index of the six series are the six values of one
\* sample that was appended (or of the initial sample); a step of the session
\* either leaves the series at two entries at most (START, RESET), or adds
\* one entry to each of the six, or, on full series, keeps all six at 200.
C29_SeriesAligned ==
  /\ Len(hist_t) >= 1
  /\ \A i \in 1 .. 6 : Len(history[i]) = Len(hist_t)
  /\ \A j \in 1 .. Len(hist_t) :
       << hist_t[j], hist_co2_z1[j], hist_nh3_z1[j],
          hist_co2_z2[j], hist_nh3_z2[j], hist_flow_z1[j] >>
         = appended[Len(appended) - Len(hist_t) + j]
  /\ Len(hist_t) <= 2 \/ Len(hist_t) = Len(appended) \/ Len(hist_t) = 200

\* Full series that hold ticks and the manual samples after a STOP.
C29_Witness ==
  /\ ~sim_active
  /\ last_cmd[2] = "stop"
  /\ sim_step = 199
  /\ Len(appended) = 203
  /\ Len(hist_t) = 200
  /\ Len(hist_flow_z1) = 200
  /\ hist_flow_z1[200] = 20
  /\ hist_flow_z1[197] = 100

\* C30: the three classifiers agree: for the same gas values and the same
\* thresholds fan_stage and get_stufe give the same stage index, and
\* autopilot_flow gives 100, 70 or 40 exactly when that index is 3, 2 or 1 and
\* the baseline (28 or 22) exactly when it is 0.
C30_ClassifiersAgree ==
  probe.evals > 0 =>
    /\ probe.stage[1] = probe.stufe[1]
    /\ probe.stufe[1] \in 0 .. 3
    /\ probe.flow = 100 <=> probe.stufe[1] = 3
    /\ probe.flow = 70 <=> probe.stufe[1] = 2
    /\ probe.flow = 40 <=> probe.stufe[1] = 1
    /\ probe.flow = probe.base_pct <=> probe.stufe[1] = 0

\* CO2 at its stage-2 threshold, NH3 low: all three say stage 1.
C30_Witness ==
  /\ probe.evals > 0
  /\ stufen_co2 = << 420, 3000, 5000, 10000 >>
  /\ stufen_nh3 = << 0, 12, 25, 50 >>
  /\ probe.co2 = 50000
  /\ probe.nh3 = 50
  /\ probe.stage[1] = 1
  /\ probe.stufe[1] = 1
  /\ probe.flow = 40

=============================================================================
